---- MODULE Spec2Model ----
(***************************************************************************)
(* Model of src/cleaning.py: the cleaning script of the severe work        *)
(* injuries analysis.  The script is one sequential pass over a pandas     *)
(* DataFrame; every statement group of the script is one action, taken in  *)
(* program order (pc).  An uncaught Python exception ends the run (pc =    *)
(* "failed") with the exception in `error`.                                *)
(*                                                                         *)
(* pandas behaves as the script's own comments record it: stack() leaves   *)
(* out the missing cells (lines 293-295, 300), merge() is an inner join    *)
(* that numbers the rows of its result anew (lines 155, 291).              *)
(***************************************************************************)
EXTENDS Integers, Sequences, FiniteSets, TLC

VARIABLES
    pc,             \* the statement group the script executes next
    error,          \* the uncaught exception: <<class, statement group>>, <<>> while none
    csv,            \* the input files: path -> table as read by pd.read_csv
    raw_data,       \* line 4
    data,           \* line 7 onwards: the DataFrame being cleaned
    origin,         \* history: for every row of data, the raw_data row label
                    \* and the naics row label it was built from
    duplicate_ids,  \* line 47
    naics,          \* line 129
    mappings,       \* line 254
    clean_data,     \* line 299
    clean_csv       \* data/clean.csv, line 303

vars == <<pc, error, csv, raw_data, data, origin, duplicate_ids, naics,
          mappings, clean_data, clean_csv>>

----------------------------------------------------------------------------
(* Bounds of the input tables. *)

MaxRows == 3        \* rows of data/data.csv
MaxLookup == 3      \* rows of data/naics.csv

----------------------------------------------------------------------------
(* Cells.  A cell is an integer, a string or the missing value NaN.  The   *)
(* payload of a string is a TLA+ string where the script never looks into  *)
(* the text; for Primary NAICS, whose characters the script tests, it is   *)
(* the sequence of the characters; for EventDate it is the sequence of the *)
(* three fields of the m/d/YYYY text.                                      *)

IntV(n) == <<"int", n>>
StrV(s) == <<"str", s>>
NaN == <<"nan">>

IsNull(v) == v = NaN
IsStr(v) == v[1] = "str"
IsInt(v) == v[1] = "int"
Val(v) == v[2]

Range(s) == {s[i] : i \in DOMAIN s}
SeqsUpTo(S, n) == UNION {[1..k -> S] : k \in 0..n}
Tables(S, n) == UNION {[1..k -> S] : k \in 1..n}
Restrict(f, S) == [x \in S |-> f[x]]
Take(s, keep) == [k \in 1..Len(keep) |-> s[keep[k]]]
RangeIndex(n) == [i \in 1..n |-> i - 1]

(* A DataFrame: its column labels in order, its row labels in order, and   *)
(* its rows, each a function from column label to cell.                    *)
Frame(cols, rows) == [columns |-> cols, index |-> RangeIndex(Len(rows)), rows |-> rows]
EmptyFrame == Frame(<<>>, <<>>)

(* DataFrame.drop(columns=...) *)
Drop(df, cols) ==
    [df EXCEPT !.columns = SelectSeq(df.columns, LAMBDA c : c \notin cols),
               !.rows = [i \in DOMAIN df.rows |->
                            Restrict(df.rows[i], (DOMAIN df.rows[i]) \ cols)]]

(* The positions at which a boolean mask, one entry per row, holds. *)
KeptPositions(mask) == SelectSeq([i \in 1..Len(mask) |-> i], LAMBDA i : mask[i])

(* df[mask]: the rows at the positions where the mask holds, labels kept. *)
FilterRows(df, mask) ==
    [df EXCEPT !.index = Take(df.index, KeptPositions(mask)),
               !.rows = Take(df.rows, KeptPositions(mask))]

(* df[col] = values, one value per row; a new column comes last. *)
Assign(df, col, values) ==
    [df EXCEPT !.columns = IF col \in Range(df.columns) THEN df.columns
                           ELSE Append(df.columns, col),
               !.rows = [i \in DOMAIN df.rows |-> (col :> values[i]) @@ df.rows[i]]]

----------------------------------------------------------------------------
(* The input files. *)

raw_columns ==
    <<"ID", "UPA", "EventDate", "Employer", "Address1", "Address2", "City",
      "State", "Zip", "Latitude", "Longitude", "Primary NAICS",
      "Hospitalized", "Amputation", "Inspection", "Nature", "NatureTitle",
      "Part of Body", "Part of Body Title", "Event", "EventTitle", "Source",
      "SourceTitle", "Secondary Source", "Secondary Source Title",
      "Final Narrative">>

coded_cols == <<"Nature", "Part of Body", "Event", "Source", "Secondary Source">>
code_files == <<"data/nature.csv", "data/part.csv", "data/events.csv", "data/source.csv">>

(* One well-formed incident; the input rows below vary it. *)
BaseIncident ==
    [c \in Range(raw_columns) |->
        CASE c = "ID" -> IntV(1)
          [] c = "UPA" -> IntV(7)
          [] c = "EventDate" -> StrV(<<1, 1, 2015>>)
          [] c = "Primary NAICS" -> StrV(<<"0", "1", "1">>)
          [] c = "Hospitalized" -> IntV(1)
          [] c = "Amputation" -> IntV(0)
          [] c = "Inspection" -> NaN
          [] c = "Nature" -> IntV(111)
          [] c = "Part of Body" -> IntV(4)
          [] c = "Event" -> IntV(61)
          [] c = "Source" -> IntV(3210)
          [] c = "Secondary Source" -> NaN
          [] c \in {"Zip", "Latitude", "Longitude"} -> IntV(0)
          [] OTHER -> StrV(c)]

(* Primary NAICS texts: digits only (with a leading zero), the range       *)
(* "4-" (the data's 48-49), and a text of one character that is numeric    *)
(* for str.isnumeric() and no decimal digit for int(): VULGAR FRACTION     *)
(* ONE HALF.                                                               *)
HALF == "1/2"

With(r, c, v) == [r EXCEPT ![c] = v]

(* The incident whose Primary NAICS is the range: it makes the column a   *)
(* text column and is itself dropped at line 149.                          *)
RangeIncident == With(BaseIncident, "Primary NAICS", StrV(<<"4", "-">>))

IdentifierRows ==
    {With(With(BaseIncident, "ID", IntV(i)), "UPA", IntV(u)) : i \in {1, 2}, u \in {7, 8}}
    \cup {RangeIncident}

JoinRows ==
    {With(BaseIncident, "Primary NAICS", n) :
        n \in {NaN, StrV(<<"0", "1", "1">>), StrV(<<"2", "1">>), StrV(<<"4", "-">>)}}

NumericRows ==
    {With(BaseIncident, "Primary NAICS", n) :
        n \in {StrV(<<"0", "1", "1">>), StrV(<<"4", "-">>), StrV(<<HALF>>)}}

LabelRows ==
    {With(With(With(With(BaseIncident, "Amputation", a), "Hospitalized", h[1]),
               "Inspection", h[2]), "State", h[3]) :
        a \in {NaN, IntV(0), IntV(2)},
        h \in {<<IntV(1), NaN, StrV("TX")>>, <<IntV(0), IntV(5), NaN>>}}
    \cup {RangeIncident}

DateRows ==
    {With(BaseIncident, "EventDate", StrV(d)) :
        d \in {<<1, 1, 2015>>, <<2, 29, 2016>>, <<2, 30, 2015>>}}
    \cup {RangeIncident}

(* Codes of the five coded columns, in the order of coded_cols. *)
CodeProfiles ==
    {<<IntV(111), IntV(4), IntV(61), IntV(3210), NaN>>,
     <<IntV(9999), IntV(9), IntV(23), IntV(4450), IntV(9999)>>,
     <<IntV(23), IntV(41), IntV(6), IntV(9), IntV(4450)>>,
     <<IntV(50), IntV(4), IntV(61), IntV(3210), IntV(30)>>,
     <<IntV(2), IntV(4), IntV(61), IntV(3210), IntV(70)>>,
     <<IntV(111), IntV(4), IntV(0), IntV(4450), NaN>>}

CodeRows ==
    {[c \in Range(raw_columns) |->
        IF \E k \in 1..Len(coded_cols) : coded_cols[k] = c
        THEN p[CHOOSE k \in 1..Len(coded_cols) : coded_cols[k] = c]
        ELSE BaseIncident[c]] : p \in CodeProfiles}
    \cup {RangeIncident}

NaicsRow(code, desc) == ("NAICS 1 Code" :> IntV(code)) @@ ("NAICS 1 Description" :> StrV(desc))
NaicsRows == {NaicsRow(11, "Agriculture"), NaicsRow(21, "Mining")}
BaseNaics == <<NaicsRow(11, "Agriculture"), NaicsRow(21, "Mining")>>

HRow(level, code, title) ==
    [Hierarchy_level |-> IntV(level), CASE_CODE |-> IntV(code), CASE_CODE_TITLE |-> StrV(title)]

(* The four hierarchy files.  Variant 1 has no level-1 row for 9; variant  *)
(* 2 has one in every file, and a second level-1 row for code 1.           *)
Hierarchy(file, variant) ==
    LET base ==
          CASE file = "data/nature.csv" ->
                 <<HRow(1, 1, "TRAUMATIC INJURIES"), HRow(2, 11, "Fractures"),
                   HRow(1, 2, "DISEASES")>>
            [] file = "data/part.csv" ->
                 <<HRow(1, 4, "UPPER EXTREMITIES"), HRow(2, 41, "Shoulder")>>
            [] file = "data/events.csv" ->
                 <<HRow(1, 2, "TRANSPORTATION"), HRow(1, 4, "FALLS, SLIPS, TRIPS"),
                   HRow(1, 6, "CONTACT")>>
            [] file = "data/source.csv" ->
                 <<HRow(1, 3, "MACHINERY"), HRow(1, 4, "PARTS AND MATERIALS"),
                   HRow(2, 7, "Handtools, level 2")>>
    IN IF variant = 1 THEN base
       ELSE base \o <<HRow(1, 9, "OTHER"), HRow(1, 1, "SECOND ROW")>>

Files(incidents, lookup, variant) ==
    [f \in {"data/data.csv", "data/naics.csv"} \cup Range(code_files) |->
        CASE f = "data/data.csv" -> incidents
          [] f = "data/naics.csv" -> lookup
          [] OTHER -> Hierarchy(f, variant)]

InputFiles(f) ==
    \/ \E t \in Tables(IdentifierRows, MaxRows) : f = Files(t, BaseNaics, 1)
    \/ \E t \in Tables(JoinRows, MaxRows), l \in SeqsUpTo(NaicsRows, MaxLookup) :
          f = Files(t, l, 1)
    \/ \E t \in Tables(NumericRows, MaxRows) : f = Files(t, BaseNaics, 1)
    \/ \E t \in Tables(LabelRows, MaxRows) : f = Files(t, BaseNaics, 1)
    \/ \E t \in Tables(DateRows, MaxRows) : f = Files(t, BaseNaics, 1)
    \/ \E t \in Tables(CodeRows, MaxRows), v \in {1, 2} : f = Files(t, BaseNaics, v)

NoFile == [written |-> FALSE, rows |-> <<>>]

Init ==
    /\ pc = "load"
    /\ error = <<>>
    /\ InputFiles(csv)
    /\ raw_data = EmptyFrame
    /\ data = EmptyFrame
    /\ origin = <<>>
    /\ duplicate_ids = <<>>
    /\ naics = EmptyFrame
    /\ mappings = <<>>
    /\ clean_data = EmptyFrame
    /\ clean_csv = NoFile

----------------------------------------------------------------------------
(* Control. *)

Goto(next) == pc' = next /\ error' = <<>>
Raise(exception) == pc' = "failed" /\ error' = <<exception, pc>>

(* Characters of a Primary NAICS text. *)
digits == <<"0", "1", "2", "3", "4", "5", "6", "7", "8", "9">>
IsDecimalChar(c) == c \in Range(digits)
IsNumericChar(c) == IsDecimalChar(c) \/ c = HALF
DigitVal(c) == CHOOSE d \in 0..9 : digits[d + 1] = c

(* int(text) of a text of decimal digits. *)
RECURSIVE ToInt(_)
ToInt(cs) ==
    IF cs = <<>> THEN 0
    ELSE 10 * ToInt(SubSeq(cs, 1, Len(cs) - 1)) + DigitVal(cs[Len(cs)])

IsDecimalText(cs) == cs # <<>> /\ \A i \in DOMAIN cs : IsDecimalChar(cs[i])

(* pd.read_csv infers the type of a column: Primary NAICS is read as       *)
(* numbers when every text of the column is a number, and stays text       *)
(* (dtype object, line 138) when at least one is not.                      *)
ObjectDtype(rows, col) ==
    \E i \in DOMAIN rows : IsStr(rows[i][col]) /\ ~IsDecimalText(Val(rows[i][col]))

read_csv(rows) ==
    IF ObjectDtype(rows, "Primary NAICS") THEN rows
    ELSE [i \in DOMAIN rows |->
            IF IsNull(rows[i]["Primary NAICS"]) THEN rows[i]
            ELSE With(rows[i], "Primary NAICS", IntV(ToInt(Val(rows[i]["Primary NAICS"]))))]

(* Lines 4-7: read the incident table and copy it. *)
LoadData ==
    /\ pc = "load"
    /\ raw_data' = Frame(raw_columns, read_csv(csv["data/data.csv"]))
    /\ data' = raw_data'
    /\ origin' = [i \in 1..Len(csv["data/data.csv"]) |-> [row |-> i - 1, lrow |-> -1]]
    /\ Goto("identifier")
    /\ UNCHANGED <<csv, duplicate_ids, naics, mappings, clean_data, clean_csv>>

(* Ascending sequence of a finite set of integers: groupby sorts its keys. *)
RECURSIVE SortedSeq(_)
SortedSeq(S) ==
    IF S = {} THEN <<>>
    ELSE LET m == CHOOSE x \in S : \A y \in S : x <= y
         IN <<m>> \o SortedSeq(S \ {m})

RECURSIVE Concat(_)
Concat(ss) == IF ss = <<>> THEN <<>> ELSE Head(ss) \o Concat(Tail(ss))

(* Line 47: the positions, group after group, of the rows whose ID occurs  *)
(* on more than one row.                                                   *)
DuplicateGroups(df) ==
    LET keys == SortedSeq({Val(df.rows[i]["ID"]) : i \in DOMAIN df.rows})
        group(k) == KeptPositions([i \in DOMAIN df.rows |-> df.rows[i]["ID"] = IntV(k)])
        groups == [j \in DOMAIN keys |-> group(keys[j])]
    IN SelectSeq(groups, LAMBDA g : Len(g) > 1)

(* Lines 36-54: keep UPA as the identifier.  pd.concat raises ValueError   *)
(* ("No objects to concatenate") when no group has more than one row.      *)
ChooseIdentifier ==
    /\ pc = "identifier"
    /\ IF DuplicateGroups(Drop(data, {"Final Narrative"})) = <<>>
       THEN /\ Raise("ValueError")
            /\ data' = Drop(data, {"Final Narrative"})
            /\ UNCHANGED duplicate_ids
       ELSE /\ duplicate_ids' =
                 Take(data.index, Concat(DuplicateGroups(Drop(data, {"Final Narrative"}))))
            /\ data' = Drop(data, {"Final Narrative", "ID"})
            /\ Goto("location")
    /\ UNCHANGED <<csv, raw_data, origin, naics, mappings, clean_data, clean_csv>>

(* Lines 78-81: State stands for the location. *)
DropLocation ==
    /\ pc = "location"
    /\ data' = Drop(data, {"Address1", "Address2", "City", "Zip", "Latitude", "Longitude"})
    /\ Goto("eventdate")
    /\ UNCHANGED <<csv, raw_data, origin, duplicate_ids, naics, mappings,
                   clean_data, clean_csv>>

(* datetime: the calendar of format '%m/%d/%Y'. *)
IsLeap(y) == y % 4 = 0 /\ (y % 100 # 0 \/ y % 400 = 0)
DaysInMonth(m, y) ==
    IF m = 2 THEN (IF IsLeap(y) THEN 29 ELSE 28)
    ELSE IF m \in {4, 6, 9, 11} THEN 30 ELSE 31
RECURSIVE DaysBeforeMonth(_, _)
DaysBeforeMonth(m, y) ==
    IF m = 1 THEN 0 ELSE DaysBeforeMonth(m - 1, y) + DaysInMonth(m - 1, y)
DaysBeforeYear(y) ==
    (y - 1) * 365 + ((y - 1) \div 4) - ((y - 1) \div 100) + ((y - 1) \div 400)
ToOrdinal(d) == DaysBeforeYear(d[3]) + DaysBeforeMonth(d[1], d[3]) + d[2]
(* pd.to_datetime(text, format='%m/%d/%Y') accepts exactly the real dates. *)
IsDate(d) == d[1] \in 1..12 /\ d[2] \in 1..DaysInMonth(d[1], d[3]) /\ d[3] \in 1..9999
weekday(d) == (ToOrdinal(d) + 6) % 7
day_name == <<"Monday", "Tuesday", "Wednesday", "Thursday", "Friday", "Saturday", "Sunday">>
month_name == <<"January", "February", "March", "April", "May", "June", "July",
                "August", "September", "October", "November", "December">>

(* Lines 91-107: Weekday and Month replace EventDate; a text that is no    *)
(* date of the format raises ValueError.                                   *)
ExtractEventDate ==
    /\ pc = "eventdate"
    /\ IF \E i \in DOMAIN data.rows : ~IsDate(Val(data.rows[i]["EventDate"]))
       THEN /\ Raise("ValueError")
            /\ UNCHANGED data
       ELSE /\ data' =
                 LET date(i) == Val(data.rows[i]["EventDate"])
                     Weekday == [i \in DOMAIN data.rows |->
                                    StrV(day_name[weekday(date(i)) + 1])]
                     Month == [i \in DOMAIN data.rows |-> StrV(month_name[date(i)[1]])]
                 IN Drop(Assign(Assign(data, "Weekday", Weekday), "Month", Month),
                         {"EventDate"})
            /\ Goto("naics")
    /\ UNCHANGED <<csv, raw_data, origin, duplicate_ids, naics, mappings,
                   clean_data, clean_csv>>

(* Lines 126-130: the employer's name is dropped, the industry lookup read. *)
ReadNaics ==
    /\ pc = "naics"
    /\ data' = Drop(data, {"Employer"})
    /\ naics' = Frame(<<"NAICS 1 Code", "NAICS 1 Description">>, csv["data/naics.csv"])
    /\ Goto("dropna")
    /\ UNCHANGED <<csv, raw_data, origin, duplicate_ids, mappings,
                   clean_data, clean_csv>>

(* Line 143: data.dropna(subset=['Primary NAICS']) *)
DropNaNaics ==
    /\ pc = "dropna"
    /\ LET notna == [i \in DOMAIN data.rows |-> ~IsNull(data.rows[i]["Primary NAICS"])]
       IN /\ data' = FilterRows(data, notna)
          /\ origin' = Take(origin, KeptPositions(notna))
    /\ Goto("isnumeric")
    /\ UNCHANGED <<csv, raw_data, duplicate_ids, naics, mappings,
                   clean_data, clean_csv>>

(* str.isnumeric(): a non-empty text of numeric characters only. *)
isnumeric(v) == Val(v) # <<>> /\ \A i \in DOMAIN Val(v) : IsNumericChar(Val(v)[i])

(* Lines 145-149: keep the rows whose Primary NAICS is numeric.  The .str  *)
(* accessor exists on a text column only: AttributeError otherwise.        *)
FilterNumericNaics ==
    /\ pc = "isnumeric"
    /\ IF ~ObjectDtype(raw_data.rows, "Primary NAICS")
       THEN /\ Raise("AttributeError")
            /\ UNCHANGED <<data, origin>>
       ELSE LET is_numeric_naics ==
                    [i \in DOMAIN data.rows |-> isnumeric(data.rows[i]["Primary NAICS"])]
            IN /\ data' = FilterRows(data, is_numeric_naics)
               /\ origin' = Take(origin, KeptPositions(is_numeric_naics))
               /\ Goto("astype")
    /\ UNCHANGED <<csv, raw_data, duplicate_ids, naics, mappings,
                   clean_data, clean_csv>>

(* Line 152: astype('int64'); int() of a text with a character that is no  *)
(* decimal digit raises ValueError.                                        *)
ConvertNaics ==
    /\ pc = "astype"
    /\ IF \E i \in DOMAIN data.rows : ~IsDecimalText(Val(data.rows[i]["Primary NAICS"]))
       THEN /\ Raise("ValueError")
            /\ UNCHANGED data
       ELSE /\ data' = Assign(data, "Primary NAICS",
                               [i \in DOMAIN data.rows |->
                                   IntV(ToInt(Val(data.rows[i]["Primary NAICS"])))])
            /\ Goto("merge")
    /\ UNCHANGED <<csv, raw_data, origin, duplicate_ids, naics, mappings,
                   clean_data, clean_csv>>

(* Every row of right, of whatever key. *)
MatchesAll(left, right, left_on, right_on, l) ==
    [k \in DOMAIN right.rows |-> <<l, k>>]

(* The pairs of row l of left: the rows of right of its key, in the order  *)
(* of right.                                                               *)
Matches(left, right, left_on, right_on, l) ==
    LET rs == KeptPositions([r \in DOMAIN right.rows |->
                                right.rows[r][right_on] = left.rows[l][left_on]])
    IN [k \in DOMAIN rs |-> <<l, rs[k]>>]

(* The pairs <<l, r>> of an inner join of left and right on left_on =      *)
(* right_on: every row position l of left with every row position r of    *)
(* right of the same key.  The pairs of one left row are in the order of   *)
(* right.  pandas releases differ in the order of the left rows: in the    *)
(* order of left ("left keys"), or one key after the other, the keys in    *)
(* the order of their first row in left ("key groups").                    *)
JoinPairs(left, right, left_on, right_on, order) ==
    LET all == [l \in 1..Len(left.rows) |-> l]
        same(l) == SelectSeq(all, LAMBDA m : left.rows[m][left_on] = left.rows[l][left_on])
        first == SelectSeq(all, LAMBDA l : same(l)[1] = l)
        lefts == IF order = "left keys" THEN all
                 ELSE Concat([j \in DOMAIN first |-> same(first[j])])
    IN Concat([j \in DOMAIN lefts |-> Matches(left, right, left_on, right_on, lefts[j])])

(* left.merge(right, left_on=..., right_on=...): the columns of left, then *)
(* those of right; a new RangeIndex.                                       *)
merge(left, right, left_on, right_on, order) ==
    LET pairs == JoinPairs(left, right, left_on, right_on, order)
    IN Frame(left.columns \o right.columns,
             [k \in DOMAIN pairs |-> left.rows[pairs[k][1]] @@ right.rows[pairs[k][2]]])

(* DataFrame.rename(columns={old: new}) *)
rename(df, old, new) ==
    [df EXCEPT !.columns = [i \in DOMAIN df.columns |->
                               IF df.columns[i] = old THEN new ELSE df.columns[i]],
               !.rows = [i \in DOMAIN df.rows |->
                            (new :> df.rows[i][old]) @@
                            Restrict(df.rows[i], (DOMAIN df.rows[i]) \ {old})]]

MergeOrders == {"left keys", "key groups"}

(* Lines 155-161: the description of the industry replaces its code. *)
MergeNaics ==
    /\ pc = "merge"
    /\ \E order \in MergeOrders :
         /\ data' = rename(Drop(merge(naics, data, "NAICS 1 Code", "Primary NAICS", order),
                                {"NAICS 1 Code", "Primary NAICS"}),
                           "NAICS 1 Description", "NAICS")
         /\ origin' =
              LET pairs == JoinPairs(naics, data, "NAICS 1 Code", "Primary NAICS", order)
              IN [k \in DOMAIN pairs |->
                    [row |-> origin[pairs[k][2]].row, lrow |-> naics.index[pairs[k][1]]]]
    /\ Goto("fillna")
    /\ UNCHANGED <<csv, raw_data, duplicate_ids, naics, mappings, clean_data, clean_csv>>

(* DataFrame.fillna(value={col: v}) *)
fillna(df, col, v) ==
    Assign(df, col, [i \in DOMAIN df.rows |->
                        IF IsNull(df.rows[i][col]) THEN v ELSE df.rows[i][col]])

(* Line 211: every missing Amputation becomes 1. *)
FillAmputation ==
    /\ pc = "fillna"
    /\ data' = fillna(data, "Amputation", IntV(1))
    /\ Goto("binary")
    /\ UNCHANGED <<csv, raw_data, origin, duplicate_ids, naics, mappings,
                   clean_data, clean_csv>>

(* x > 0 of a number; NaN > 0 is False. *)
Positive(x) == IsInt(x) /\ Val(x) > 0

(* Lines 214-220: 'X' and 'not X'. *)
BinaryCategorise ==
    /\ pc = "binary"
    /\ data' =
         LET Hospitalized == [i \in DOMAIN data.rows |->
                                 IF Positive(data.rows[i]["Hospitalized"])
                                 THEN StrV("Hospitalized") ELSE StrV("Not Hospitalized")]
             Amputation == [i \in DOMAIN data.rows |->
                               IF Positive(data.rows[i]["Amputation"])
                               THEN StrV("Amputation") ELSE StrV("No Amputation")]
             Inspection == [i \in DOMAIN data.rows |->
                               IF ~IsNull(data.rows[i]["Inspection"])
                               THEN StrV("Has Inspection") ELSE StrV("No Inspection")]
         IN Assign(Assign(Assign(data, "Hospitalized", Hospitalized),
                          "Amputation", Amputation),
                   "Inspection", Inspection)
    /\ Goto("mappings")
    /\ UNCHANGED <<csv, raw_data, origin, duplicate_ids, naics, mappings,
                   clean_data, clean_csv>>

BuildMappingFileFirst(code_data) ==
    LET top == SelectSeq(code_data, LAMBDA r : r.Hierarchy_level = IntV(1))
        keys == {Val(top[i].CASE_CODE) : i \in DOMAIN top}
        mapping == [k \in keys |->
                      top[CHOOSE i \in DOMAIN top :
                            /\ top[i].CASE_CODE = IntV(k)
                            /\ \A j \in 1..(i - 1) : top[j].CASE_CODE # IntV(k)].CASE_CODE_TITLE]
    IN mapping @@ (9 :> StrV("NONCLASSIFIABLE"))

(* Lines 256-266: the mapping of one hierarchy file: the level-1 codes to  *)
(* the title of their first row, and 9 to NONCLASSIFIABLE.                 *)
BuildMapping(code_data) ==
    LET top == SelectSeq(code_data, LAMBDA r : r.Hierarchy_level = IntV(1))
        keys == {Val(top[i].CASE_CODE) : i \in DOMAIN top}
        mapping == [k \in keys |->
                      top[CHOOSE i \in DOMAIN top :
                            /\ top[i].CASE_CODE = IntV(k)
                            /\ \A j \in 1..(i - 1) : top[j].CASE_CODE # IntV(k)].CASE_CODE_TITLE]
    IN (9 :> StrV("NONCLASSIFIABLE")) @@ mapping

(* Lines 253-267: one mapping per coded column but the last. *)
BuildMappings ==
    /\ pc = "mappings"
    /\ mappings' = [col \in {coded_cols[k] : k \in 1..Len(code_files)} |->
                      BuildMapping(csv[code_files[CHOOSE k \in 1..Len(code_files) :
                                                    coded_cols[k] = col]])]
    /\ Goto("collapse")
    /\ UNCHANGED <<csv, raw_data, data, origin, duplicate_ids, naics,
                   clean_data, clean_csv>>

(* str(x) of a code: its decimal text. *)
RECURSIVE str(_)
str(n) == IF n < 10 THEN <<digits[n + 1]>> ELSE str(n \div 10) \o <<digits[(n % 10) + 1]>>

(* Line 271: int(str(x)[:1]), the leftmost digit. *)
LeadingDigit(x) == IntV(ToInt(SubSeq(str(Val(x)), 1, 1)))

(* mapping[x]: the value of the key, KeyError for a key the mapping does   *)
(* not have.                                                               *)
KeyError == <<"KeyError">>
MapCodeDefault(mapping, x) ==
    IF Val(x) \in DOMAIN mapping THEN mapping[Val(x)] ELSE StrV("NONCLASSIFIABLE")
MapCode(mapping, x) == IF Val(x) \in DOMAIN mapping THEN mapping[Val(x)] ELSE KeyError

(* Lines 271-272 for the first k coded columns. *)
RECURSIVE CollapseColumns(_, _, _)
CollapseColumns(df, maps, k) ==
    IF k = 0 THEN df
    ELSE Assign(CollapseColumns(df, maps, k - 1), coded_cols[k],
                [i \in DOMAIN df.rows |->
                    MapCode(maps[coded_cols[k]], LeadingDigit(df.rows[i][coded_cols[k]]))])

Unmapped(df, maps, col, mapcol) ==
    \E i \in DOMAIN df.rows :
        /\ ~IsNull(df.rows[i][col])
        /\ MapCode(maps[mapcol], LeadingDigit(df.rows[i][col])) = KeyError

(* Lines 270-272: Nature, Part of Body, Event and Source, one column after *)
(* the other; the first code without a mapping raises KeyError, with the   *)
(* columns before it collapsed and its own column cut to the digit.        *)
CollapseCodes ==
    /\ pc = "collapse"
    /\ IF \E k \in 1..Len(code_files) : Unmapped(data, mappings, coded_cols[k], coded_cols[k])
       THEN LET k == CHOOSE j \in 1..Len(code_files) :
                       /\ Unmapped(data, mappings, coded_cols[j], coded_cols[j])
                       /\ \A h \in 1..(j - 1) :
                             ~Unmapped(data, mappings, coded_cols[h], coded_cols[h])
            IN /\ data' = Assign(CollapseColumns(data, mappings, k - 1), coded_cols[k],
                                 [i \in DOMAIN data.rows |->
                                     LeadingDigit(data.rows[i][coded_cols[k]])])
               /\ Raise(KeyError[1])
       ELSE /\ data' = CollapseColumns(data, mappings, Len(code_files))
            /\ Goto("secondary")
    /\ UNCHANGED <<csv, raw_data, origin, duplicate_ids, naics, mappings,
                   clean_data, clean_csv>>

SecondarySourceMerged(maps, x) ==
    IF IsNull(x) THEN x ELSE MapCode(maps["Event"] @@ maps["Source"], LeadingDigit(x))

(* Line 276, one cell: a missing Secondary Source stays missing, a code is *)
(* mapped by the mapping of Source.                                        *)
SecondarySource(maps, x) ==
    IF IsNull(x) THEN x ELSE MapCode(maps["Source"], LeadingDigit(x))

(* Lines 275-276. *)
CollapseSecondarySource ==
    /\ pc = "secondary"
    /\ IF Unmapped(data, mappings, "Secondary Source", "Source")
       THEN /\ Raise(KeyError[1])
            /\ UNCHANGED data
       ELSE /\ data' = Assign(data, "Secondary Source",
                              [i \in DOMAIN data.rows |->
                                  SecondarySource(mappings, data.rows[i]["Secondary Source"])])
            /\ Goto("titles")
    /\ UNCHANGED <<csv, raw_data, origin, duplicate_ids, naics, mappings,
                   clean_data, clean_csv>>

(* Lines 279-283. *)
DropTitles ==
    /\ pc = "titles"
    /\ data' = Drop(data, {"NatureTitle", "Part of Body Title", "EventTitle", "SourceTitle",
                           "Secondary Source Title"})
    /\ Goto("reshape")
    /\ UNCHANGED <<csv, raw_data, origin, duplicate_ids, naics, mappings,
                   clean_data, clean_csv>>

(* DataFrame.stack().reset_index(): row after row, column after column,    *)
(* one entry per cell that is not missing, with the row's label (level_0)  *)
(* and the column's label (level_1).                                       *)
StackRowKeepNa(df, i) ==
    LET cols == df.columns
    IN [k \in DOMAIN cols |->
          [level_0 |-> IntV(df.index[i]), level_1 |-> StrV(cols[k]), value |-> df.rows[i][cols[k]]]]

StackRow(df, i) ==
    LET cols == SelectSeq(df.columns, LAMBDA c : ~IsNull(df.rows[i][c]))
    IN [k \in DOMAIN cols |->
          [level_0 |-> IntV(df.index[i]), level_1 |-> StrV(cols[k]), value |-> df.rows[i][cols[k]]]]

stack(df) == Concat([i \in DOMAIN df.rows |-> StackRow(df, i)])

rename_cols == [level_0 |-> "UAP", value |-> "Event"]

(* Lines 294-299: level_0 and the values, renamed UAP and Event. *)
Reshape ==
    /\ pc = "reshape"
    /\ clean_data' =
         LET stacked == stack(data)
         IN Frame(<<rename_cols.level_0, rename_cols.value>>,
                  [k \in DOMAIN stacked |->
                      (rename_cols.level_0 :> stacked[k].level_0) @@
                      (rename_cols.value :> stacked[k].value)])
    /\ Goto("export")
    /\ UNCHANGED <<csv, raw_data, data, origin, duplicate_ids, naics, mappings,
                   clean_csv>>

(* Line 303: to_csv writes the index as a first, unnamed column. *)
Export ==
    /\ pc = "export"
    /\ clean_csv' = [written |-> TRUE,
                     rows |-> [k \in DOMAIN clean_data.rows |->
                                 ("" :> IntV(clean_data.index[k])) @@ clean_data.rows[k]]]
    /\ Goto("done")
    /\ UNCHANGED <<csv, raw_data, data, origin, duplicate_ids, naics, mappings,
                   clean_data>>

Next ==
    \/ LoadData
    \/ ChooseIdentifier
    \/ DropLocation
    \/ ExtractEventDate
    \/ ReadNaics
    \/ DropNaNaics
    \/ FilterNumericNaics
    \/ ConvertNaics
    \/ MergeNaics
    \/ FillAmputation
    \/ BinaryCategorise
    \/ BuildMappings
    \/ CollapseCodes
    \/ CollapseSecondarySource
    \/ DropTitles
    \/ Reshape
    \/ Export

Spec == Init /\ [][Next]_vars

----------------------------------------------------------------------------
(* Properties. *)

(* The run is past the merge of line 155: data holds the kept records. *)
AfterMerge == {"fillna", "binary", "mappings", "collapse", "secondary", "titles", "reshape",
               "export", "done"}
PostMerge == pc \in AfterMerge \/ (pc = "failed" /\ error[2] \in AfterMerge)

(* The raw_data row a kept record was built from. *)
RawRow(i) == raw_data.rows[origin[i].row + 1]

(* For every row of the long table, the position of the record of data it  *)
(* was made from: as many entries per record as the record has cells that  *)
(* are not missing.                                                        *)
NonNullColumns(i) == SelectSeq(data.columns, LAMBDA c : ~IsNull(data.rows[i][c]))
RecordOf == Concat([i \in DOMAIN data.rows |-> [k \in DOMAIN NonNullColumns(i) |-> i]])

(* C1: when the script is done, every kept record has, for each of its     *)
(* cells that is not missing, a row of the long table whose identifier     *)
(* field is the record's UPA and whose Event field is the cell, and the    *)
(* identifier field of every row of the long table is the UPA of the       *)
(* record the row was made from.                                           *)
C1_IdentifierIsUPA ==
    pc = "done" =>
        /\ \A i \in DOMAIN data.rows :
             \A c \in Range(data.columns) \ {"UPA"} :
                ~IsNull(data.rows[i][c]) =>
                    \E k \in DOMAIN clean_data.rows :
                        /\ clean_data.rows[k]["UAP"] = data.rows[i]["UPA"]
                        /\ clean_data.rows[k]["Event"] = data.rows[i][c]
        /\ Len(clean_data.rows) = Len(RecordOf)
        /\ \A k \in DOMAIN clean_data.rows :
             clean_data.rows[k]["UAP"] = data.rows[RecordOf[k]]["UPA"]

RECURSIVE Sum(_)
Sum(ns) == IF ns = <<>> THEN 0 ELSE Head(ns) + Sum(Tail(ns))

NonNullCount(i) == Cardinality({c \in Range(data.columns) : ~IsNull(data.rows[i][c])})

(* C2: once the table is reshaped, the long table (and the exported file)  *)
(* has exactly as many rows as the kept records have cells that are not    *)
(* missing, summed over the records.                                       *)
C2_RowCountLaw ==
    /\ pc \in {"export", "done"} =>
          Len(clean_data.rows) = Sum([i \in DOMAIN data.rows |-> NonNullCount(i)])
    /\ pc = "done" => Len(clean_csv.rows) = Sum([i \in DOMAIN data.rows |-> NonNullCount(i)])

(* C2, the case of the example: 2 records of 13 columns, one missing       *)
(* Secondary Source, 25 rows.                                              *)
C2_Witness ==
    /\ pc = "done"
    /\ Len(data.rows) = 2
    /\ Len(data.columns) = 13
    /\ IsNull(data.rows[1]["Secondary Source"])
    /\ NonNullCount(1) = 12
    /\ NonNullCount(2) = 13
    /\ Len(clean_data.rows) = 25

(* The leading digit of a code: the d with d * 10^e <= c < (d + 1) * 10^e. *)
FirstDigit(c) ==
    IF c = 0 THEN 0
    ELSE CHOOSE d \in 1..9 : \E e \in 0..5 : d * 10^e <= c /\ c < (d + 1) * 10^e

(* The title that the level-1 rows of a hierarchy file give to digit d:    *)
(* NONCLASSIFIABLE for 9, else the title of the first level-1 row of code  *)
(* d; Missing when the file has no such row.                               *)
Missing == <<"missing">>
TopTitle(file, d) ==
    LET rows == csv[file]
        hits == {i \in DOMAIN rows : rows[i].Hierarchy_level = IntV(1) /\ rows[i].CASE_CODE = IntV(d)}
    IN IF d = 9 THEN StrV("NONCLASSIFIABLE")
       ELSE IF hits = {} THEN Missing
       ELSE rows[CHOOSE i \in hits : \A j \in hits : i <= j].CASE_CODE_TITLE

AfterCollapse == {"secondary", "titles", "reshape", "export", "done"}
AfterSecondary == {"titles", "reshape", "export", "done"}

(* C3: once Nature, Part of Body, Event and Source are collapsed, the      *)
(* value of each on every kept record is the title that the level-1 rows   *)
(* of the column's own hierarchy file give to the leading digit of the     *)
(* record's code, and NONCLASSIFIABLE when that digit is 9, whatever the   *)
(* file says about 9.                                                      *)
C3_HierarchyCollapse ==
    pc \in AfterCollapse =>
        \A i \in DOMAIN data.rows :
            \A k \in 1..Len(code_files) :
                data.rows[i][coded_cols[k]] =
                    TopTitle(code_files[k], FirstDigit(Val(RawRow(i)[coded_cols[k]])))

(* C3, its case: the script is done, a kept record has a Nature code of    *)
(* leading digit 9, collapsed to NONCLASSIFIABLE, and the nature file has  *)
(* a level-1 row for 9 of another title.                                   *)
C3_Witness ==
    /\ pc = "done"
    /\ \E i \in DOMAIN data.rows :
          /\ RawRow(i)["Nature"] = IntV(9999)
          /\ data.rows[i]["Nature"] = StrV("NONCLASSIFIABLE")
          /\ data.rows[i]["Source"] = StrV("PARTS AND MATERIALS")
    /\ \E j \in DOMAIN csv["data/nature.csv"] :
          /\ csv["data/nature.csv"][j].CASE_CODE = IntV(9)
          /\ csv["data/nature.csv"][j].Hierarchy_level = IntV(1)
          /\ csv["data/nature.csv"][j].CASE_CODE_TITLE = StrV("OTHER")

(* C4: once Secondary Source is collapsed, on every kept record a missing  *)
(* Secondary Source is still missing, and a code has become the title that *)
(* the level-1 rows of the source file give to its leading digit; when the *)
(* script is done, a record without Secondary Source has rows in the long  *)
(* table for its other cells only.                                         *)
C4_SecondarySource ==
    /\ pc \in AfterSecondary =>
        \A i \in DOMAIN data.rows :
            IF IsNull(RawRow(i)["Secondary Source"])
            THEN IsNull(data.rows[i]["Secondary Source"])
            ELSE data.rows[i]["Secondary Source"] =
                    TopTitle("data/source.csv", FirstDigit(Val(RawRow(i)["Secondary Source"])))
    /\ pc = "done" =>
        \A i \in DOMAIN data.rows :
            IsNull(RawRow(i)["Secondary Source"]) =>
                Cardinality({k \in DOMAIN clean_data.rows :
                               clean_data.rows[k]["UAP"] = IntV(data.index[i])})
                  = Cardinality({c \in Range(data.columns) \ {"Secondary Source"} :
                                   ~IsNull(data.rows[i][c])})

(* C4, its case: the script is done with a kept record without Secondary   *)
(* Source and a kept record whose Secondary Source code 4450 became        *)
(* the title of 4 in the source file.                                      *)
C4_Witness ==
    /\ pc = "done"
    /\ \E i, j \in DOMAIN data.rows :
          /\ IsNull(RawRow(i)["Secondary Source"])
          /\ IsNull(data.rows[i]["Secondary Source"])
          /\ RawRow(j)["Secondary Source"] = IntV(4450)
          /\ data.rows[j]["Secondary Source"] = StrV("PARTS AND MATERIALS")

(* The number a text of decimal digits stands for, read from the left. *)
RECURSIVE NumberFrom(_, _)
NumberFrom(acc, cs) ==
    IF cs = <<>> THEN acc ELSE NumberFrom(10 * acc + DigitVal(Head(cs)), Tail(cs))

(* The Primary NAICS text of the incident a kept record was built from. *)
OriginalNaics(i) == csv["data/data.csv"][origin[i].row + 1]["Primary NAICS"]

(* C5: after the merge, the NAICS of every kept record is not missing and  *)
(* is the description on a row of the industry lookup table whose code is  *)
(* the number of the record's original Primary NAICS.                      *)
C5_IndustryJoinValue ==
    PostMerge =>
        \A i \in DOMAIN data.rows :
            /\ ~IsNull(data.rows[i]["NAICS"])
            /\ ~IsNull(OriginalNaics(i))
            /\ \E l \in DOMAIN csv["data/naics.csv"] :
                  /\ csv["data/naics.csv"][l]["NAICS 1 Code"] =
                        IntV(NumberFrom(0, Val(OriginalNaics(i))))
                  /\ csv["data/naics.csv"][l]["NAICS 1 Description"] = data.rows[i]["NAICS"]

(* C5, its case: the script is done with a kept record of Primary NAICS    *)
(* "011" that carries the description of code 11, and one of "21" that     *)
(* carries the description of code 21.                                     *)
C5_Witness ==
    /\ pc = "done"
    /\ \E i, j \in DOMAIN data.rows :
          /\ OriginalNaics(i) = StrV(<<"0", "1", "1">>)
          /\ data.rows[i]["NAICS"] = StrV("Agriculture")
          /\ OriginalNaics(j) = StrV(<<"2", "1">>)
          /\ data.rows[j]["NAICS"] = StrV("Mining")

(* The long table as the reshape is claimed to order it: record after      *)
(* record of data, and within a record column after column.                *)
LongRows ==
    Concat([i \in DOMAIN data.rows |->
              LET cols == NonNullColumns(i)
              IN [k \in DOMAIN cols |->
                    ("UAP" :> IntV(data.index[i])) @@ ("Event" :> data.rows[i][cols[k]])]])

(* C6: when the script is done, the rows of the long table are grouped by  *)
(* record, within a record in the order of the columns, and the records    *)
(* are in the order they had in the incident table, whatever the order of  *)
(* the rows of the lookup table.                                           *)
C6_InputOrder ==
    pc = "done" =>
        /\ clean_data.rows = LongRows
        /\ \A i, j \in DOMAIN data.rows : i < j => origin[i].row <= origin[j].row

AfterBinary == {"mappings", "collapse", "secondary", "titles", "reshape", "export", "done"}
RawAmputation(i) == RawRow(i)["Amputation"]

UnmappedCode ==
    \E i \in DOMAIN data.rows : \E k \in 1..Len(code_files) :
        TopTitle(code_files[k], FirstDigit(Val(RawRow(i)[coded_cols[k]]))) = Missing
UnmappedSecondary ==
    \E i \in DOMAIN data.rows :
        /\ ~IsNull(RawRow(i)["Secondary Source"])
        /\ TopTitle("data/source.csv", FirstDigit(Val(RawRow(i)["Secondary Source"]))) = Missing

(* C8: when a kept record has an unmapped code in Nature, Part of Body,    *)
(* Event or Source, the run does not pass the collapse of line 270-272: it *)
(* ends there with KeyError; when only a Secondary Source is unmapped, it  *)
(* ends with KeyError at line 276; in both cases no long table is built    *)
(* and no file written; and KeyError is raised in no other case.           *)
C8_UnmappedCodeFatal ==
    (PostMerge /\ (UnmappedCode \/ UnmappedSecondary \/ pc = "failed")) =>
        /\ UnmappedCode =>
              \/ pc \in {"fillna", "binary", "mappings", "collapse"}
              \/ pc = "failed" /\ error = <<"KeyError", "collapse">>
        /\ (~UnmappedCode /\ UnmappedSecondary) =>
              \/ pc \in {"fillna", "binary", "mappings", "collapse", "secondary"}
              \/ pc = "failed" /\ error = <<"KeyError", "secondary">>
        /\ (UnmappedCode \/ UnmappedSecondary) =>
              ~clean_csv.written /\ clean_data = EmptyFrame
        /\ (pc = "failed" /\ error[1] = "KeyError") => (UnmappedCode \/ UnmappedSecondary)

(* C8, its case: the run ended with KeyError at line 276, on a Secondary   *)
(* Source code 70 (7 is a level-2 code of the source file), nothing        *)
(* written.                                                                *)
C8_Witness ==
    /\ pc = "failed"
    /\ error = <<"KeyError", "secondary">>
    /\ \E i \in DOMAIN data.rows : RawRow(i)["Secondary Source"] = IntV(70)
    /\ ~clean_csv.written

(* C9: choosing the identifier never raises, and hands on the same records *)
(* without ID and Final Narrative, UPA kept.                               *)
C9_ResolverNeverRaises ==
    /\ pc = "failed" => error[2] # "identifier"
    /\ pc = "location" => data = Drop(raw_data, {"ID", "Final Narrative"})

OnlyDigits(v) ==
    /\ ~IsNull(v)
    /\ Val(v) # <<>>
    /\ \A k \in DOMAIN Val(v) : Val(v)[k] \in {"0", "1", "2", "3", "4", "5", "6", "7", "8", "9"}

(* How often incident r of the incident table is in the merged table, and  *)
(* on how many rows of the lookup table its code is.                       *)
Copies(r) == Cardinality({i \in DOMAIN data.rows : origin[i].row = r - 1})
LookupRows(v) ==
    IF OnlyDigits(v)
    THEN Cardinality({l \in DOMAIN csv["data/naics.csv"] :
                        csv["data/naics.csv"][l]["NAICS 1 Code"] = IntV(NumberFrom(0, Val(v)))})
    ELSE 0

(* C10: after the merge, an incident is in the merged table exactly once   *)
(* when its Primary NAICS is a text of digits that is a code of the lookup *)
(* table, and not at all otherwise; the merged table has no more records   *)
(* than the incident table; and no step of the join (lines 143-155)        *)
(* raises.                                                                 *)
C10_ExactlyOnce ==
    /\ PostMerge =>
          /\ \A r \in DOMAIN csv["data/data.csv"] :
                Copies(r) = IF LookupRows(csv["data/data.csv"][r]["Primary NAICS"]) > 0
                            THEN 1 ELSE 0
          /\ Len(data.rows) <= Len(csv["data/data.csv"])
    /\ pc = "failed" => error[2] \notin {"dropna", "isnumeric", "astype", "merge"}

====
